---- MODULE Spec2Model ----
(***************************************************************************)
(* Error recovery of the parser-combinator engine (src/src/recovery.rs):   *)
(* the three recovery strategies (skip_then_retry_until, skip_until,       *)
(* nested_delimiters) and the two combinators that attach a fallback       *)
(* (Recovery<A, S> and RecoverVia<A, B>).                                  *)
(*                                                                         *)
(* The input stream and the wrapped parsers are collaborators whose code   *)
(* is outside recovery.rs. The stream is a token sequence with a cursor    *)
(* (offset); a wrapped parser is a nondeterministic step that may advance  *)
(* the cursor, returns a list of diagnostics and either succeeds or fails  *)
(* with a positioned error. A failing parser does not restore the cursor   *)
(* (recovery.rs:369 and :380 revert explicitly for that reason).           *)
(***************************************************************************)
EXTENDS Integers, Sequences, FiniteSets, TLC

\* ---------------------------------------------------------------- bounds
MaxLen == 3        \* longest input, in tokens
MaxStart == 1      \* largest cursor position at which a combinator is invoked
MaxAdvance == 1    \* most tokens one invocation of a wrapped parser consumes
MaxDiags == 1      \* most diagnostics one invocation of a wrapped parser returns

\* ---------------------------------------------------------------- values
VARIABLES
    input,              \* the token sequence behind the stream
    offset,             \* the stream's cursor (tokens consumed so far)
    combinator,         \* "Recovery" or "RecoverVia"
    strategy,           \* the strategy S of Recovery<A, S>
    until,              \* self.0 of SkipThenRetryUntil / SkipUntil: the terminators
    consume_end,        \* SkipThenRetryUntil.1 / SkipUntil.2
    skip_start,         \* SkipThenRetryUntil.2 / SkipUntil.3
    others,             \* NestedDelimiters.2: the secondary (start, end) pairs
    entry,              \* cursor position at which the combinator was invoked
    recovered_errors,   \* the diagnostics A returned (the list handed to recover)
    a_err,              \* the fatal error A returned (handed to recover)
    a_errors,           \* the strategy's / RecoverVia's working diagnostic list
    pre_state,          \* the checkpoint saved by the running operation
    balance,            \* NestedDelimiters: primary balance
    balance_others,     \* NestedDelimiters: one counter per secondary pair
    starts,             \* NestedDelimiters: stack of spans of primary openers
    error,              \* NestedDelimiters: Option of the recorded diagnostic
    recovered,          \* NestedDelimiters: value the loop broke with
    b_ret,              \* RecoverVia: what invoking B returned
    retries,            \* number of re-attempts of the wrapped parser so far
    discards,           \* number of non-terminator inputs the retry loop discarded
    result,             \* the PResult returned: [errors, res]
    pc                  \* position of the running operation

vars == <<input, offset, combinator, strategy, until, consume_end, skip_start,
          others, entry, recovered_errors, a_err, a_errors, pre_state, balance,
          balance_others, starts, error, recovered, b_ret, retries,
          discards, result, pc>>

config == <<input, combinator, strategy, until, consume_end, skip_start, others, entry>>
nested == <<balance, balance_others, starts, error, recovered>>

\* Option<T> is a sequence of length 0 or 1.
None == <<>>
Some(x) == <<x>>

Min(a, b) == IF a < b THEN a ELSE b

\* Located::at(at, error)
Located(at, e) == [at |-> at, error |-> e]

\* Errors made by the wrapped parsers are opaque values; `by` names the
\* invocation that made them ("A" the first run, "A2" a re-attempt, "B").
ParseError(by) == [kind |-> "fatal", by |-> by]
Diagnostic(by) == [kind |-> "diagnostic", by |-> by]

\* E::expected_input_found(span, expected, found)
expected_input_found(span, expected, found) ==
    [kind |-> "expected_input_found", span |-> span, expected |-> expected,
     found |-> found]

\* E::unclosed_delimiter(start_span, start, before_span, end, found)
unclosed_delimiter(start_span, start, before_span, end, found) ==
    [kind |-> "unclosed_delimiter", start_span |-> start_span, start |-> start,
     before_span |-> before_span, end |-> end, found |-> found]

\* The fallback constructor F: Fn(Span) -> O
fallback(span) == [kind |-> "fallback", span |-> span]

Ok(out) == [ok |-> TRUE, out |-> out]
Err(e) == [ok |-> FALSE, err |-> e]
NoResult == [errors |-> <<>>, res |-> Err(Located(0, ParseError("none")))]

\* ---------------------------------------------------------------- the stream
\* stream.next(): (position, span, Option<token>) and the cursor afterwards.
\* At the end of input nothing is consumed.
Stream_next(off) ==
    IF off < Len(input)
    THEN [at |-> off, span |-> <<off, off + 1>>, tok |-> Some(input[off + 1]),
          offset |-> off + 1]
    ELSE [at |-> off, span |-> <<Len(input), Len(input)>>, tok |-> None,
          offset |-> off]

\* stream.save()
Stream_save(off) == off

\* stream.span_since(checkpoint)
Stream_span_since(before, off) == <<before, off>>

\* stream.attempt(f): the cursor moves to where f left it only if f commits.
Stream_attempt(off, commit, after) == IF commit THEN after ELSE off

\* ---------------------------------------------------------------- parsers
\* Diagnostics a parser can return when it ran over positions lo..hi.
DiagnosticLists(by, lo, hi) ==
    UNION { [1..n -> {Located(p, Diagnostic(by)) : p \in lo..hi}] : n \in 0..MaxDiags }

\* debugger.invoke(&parser, stream) from cursor position `off`: every
\* (diagnostics, result, cursor afterwards) the parser may produce. A parser
\* never moves the cursor backwards; its diagnostics lie between where it
\* started and where it stopped, and a failing parser reports its fatal
\* error at the position where it stopped.
Invoke(by, off) ==
    UNION { { [errors |-> ds, ok |-> ok, at |-> e, end |-> e] :
                ok \in BOOLEAN, ds \in DiagnosticLists(by, off, e) } :
            e \in off..Min(Len(input), off + MaxAdvance) }

Outcome(by, r) ==
    IF r.ok THEN Ok([kind |-> "parsed", by |-> by, end |-> r.end])
    ELSE Err(Located(r.at, ParseError(by)))

\* ---------------------------------------------------------------- Init
SkipTokens == {"a", ";"}
DelimTokens == {"(", ")", "[", "]", "a"}

Inputs(alphabet) == UNION { [1..n -> alphabet] : n \in 0..MaxLen }

Init ==
    /\ \/ /\ combinator = "Recovery"
          /\ strategy \in {"SkipThenRetryUntil", "SkipUntil"}
          /\ input \in Inputs(SkipTokens)
          /\ consume_end \in BOOLEAN
          /\ skip_start \in BOOLEAN
          /\ others = <<>>
       \/ /\ combinator = "Recovery"
          /\ strategy = "NestedDelimiters"
          /\ input \in Inputs(DelimTokens)
          /\ consume_end = FALSE
          /\ skip_start = FALSE
          /\ others \in {<<>>, << <<"[", "]">> >>}
       \/ /\ combinator = "RecoverVia"
          /\ strategy = "none"
          /\ input \in Inputs({"a"})
          /\ consume_end = FALSE
          /\ skip_start = FALSE
          /\ others = <<>>
    /\ until = {";"}
    /\ entry \in 0..Min(MaxStart, Len(input))
    \* Inputs before the invocation position were consumed earlier and are
    \* never read again (no revert goes before pre_state): one value stands
    \* for all of them.
    /\ \A i \in 1..entry : input[i] = "a"
    /\ offset = entry
    /\ recovered_errors = <<>>
    /\ a_err = Located(0, ParseError("none"))
    /\ a_errors = <<>>
    /\ pre_state = 0
    /\ balance = 0
    /\ balance_others = <<>>
    /\ starts = <<>>
    /\ error = None
    /\ recovered = FALSE
    /\ b_ret = [errors |-> <<>>, ok |-> FALSE, at |-> 0, end |-> 0]
    /\ retries = 0
    /\ discards = 0
    /\ result = NoResult
    /\ pc = "parse_inner"

\* ---------------------------------------------------------------- Recovery<A, S>
\* Recovery::parse_inner: A runs under stream.try_parse, which keeps the
\* cursor on Ok and restores it on Err; on Err the strategy takes over.
Recovery_parse_inner ==
    /\ pc = "parse_inner"
    /\ combinator = "Recovery"
    /\ \E r \in Invoke("A", offset) :
        IF r.ok
        THEN /\ offset' = r.end
             /\ result' = [errors |-> r.errors, res |-> Outcome("A", r)]
             /\ pc' = "done"
             /\ UNCHANGED <<recovered_errors, a_err>>
        ELSE /\ offset' = offset
             /\ recovered_errors' = r.errors
             /\ a_err' = Located(r.at, ParseError("A"))
             /\ pc' = "recover"
             /\ UNCHANGED result
    /\ UNCHANGED <<config, nested, a_errors, pre_state, b_ret, retries, discards>>

\* ---------------------------------------------------------------- skip_then_retry_until
\* Variant of SkipThenRetryUntil_probe: a consumed terminator lets the loop go on.
SkipThenRetryUntil_probe_past_end(tok) ==
    IF tok = None THEN [commit |-> FALSE, res |-> FALSE]
    ELSE IF tok[1] \in until THEN [commit |-> consume_end, res |-> consume_end]
    ELSE [commit |-> TRUE, res |-> TRUE]

\* The probe closure of SkipThenRetryUntil::recover: (commit, continue).
SkipThenRetryUntil_probe(tok) ==
    IF tok = None THEN [commit |-> FALSE, res |-> FALSE]
    ELSE IF tok[1] \in until THEN [commit |-> consume_end, res |-> FALSE]
    ELSE [commit |-> TRUE, res |-> TRUE]

\* The list returned when a re-attempt succeeds: the re-attempt's own
\* diagnostics with the fatal error pushed.
SkipThenRetryUntil_ok(errors, fatal) == Append(errors, fatal)

\* `if self.2 { let _ = stream.next(); }`
SkipThenRetryUntil_recover ==
    /\ pc = "recover"
    /\ strategy = "SkipThenRetryUntil"
    /\ offset' = IF skip_start THEN Stream_next(offset).offset ELSE offset
    /\ a_errors' = recovered_errors
    /\ pc' = "stru_loop"
    /\ UNCHANGED <<config, nested, recovered_errors, a_err, pre_state, b_ret,
                   retries, discards, result>>

\* One probe of the loop: stream.attempt(...) and the break on false.
SkipThenRetryUntil_attempt ==
    /\ pc = "stru_loop"
    /\ LET n == Stream_next(offset)
           p == SkipThenRetryUntil_probe(n.tok)
       IN /\ offset' = Stream_attempt(offset, p.commit, n.offset)
          /\ IF p.res
             THEN /\ pc' = "stru_invoke"
                  /\ UNCHANGED result
             ELSE /\ pc' = "done"
                  /\ result' = [errors |-> a_errors, res |-> Err(a_err)]
          /\ discards' = IF p.commit /\ n.tok # None /\ n.tok[1] \notin until
                         THEN discards + 1 ELSE discards
    /\ UNCHANGED <<config, nested, recovered_errors, a_err, a_errors, pre_state,
                   b_ret, retries>>

\* The re-attempt of the wrapped parser after a committed discard.
SkipThenRetryUntil_invoke ==
    /\ pc = "stru_invoke"
    /\ \E r \in Invoke("A2", offset) :
        /\ offset' = r.end
        /\ IF r.ok
           THEN /\ pc' = "done"
                /\ result' = [errors |-> SkipThenRetryUntil_ok(r.errors, a_err),
                              res |-> Outcome("A2", r)]
           ELSE /\ pc' = "stru_loop"
                /\ UNCHANGED result
    /\ retries' = retries + 1
    /\ UNCHANGED <<config, nested, recovered_errors, a_err, a_errors, pre_state,
                   b_ret, discards>>

\* ---------------------------------------------------------------- skip_until
\* Variant of SkipUntil_probe: the end of input taken for a terminator.
SkipUntil_probe_eof_found(tok) ==
    IF tok = None \/ tok[1] \in until THEN [commit |-> consume_end, res |-> "found"]
    ELSE [commit |-> TRUE, res |-> "skipped"]

\* Variant of SkipUntil_probe: a terminator that is not consumed counts as skipped.
SkipUntil_probe_end_skipped(tok) ==
    IF tok = None THEN [commit |-> TRUE, res |-> "eof"]
    ELSE IF tok[1] \in until THEN [commit |-> consume_end, res |-> "skipped"]
    ELSE [commit |-> TRUE, res |-> "skipped"]

\* Variant of SkipUntil_probe: self.3 read for self.2 in the terminator arm.
SkipUntil_probe_wrong_flag(tok) ==
    IF tok = None THEN [commit |-> TRUE, res |-> "eof"]
    ELSE IF tok[1] \in until THEN [commit |-> skip_start, res |-> "found"]
    ELSE [commit |-> TRUE, res |-> "skipped"]

\* The probe closure of SkipUntil::recover: (commit, result), the result
\* being "found" (Ok(true)), "skipped" (Ok(false)) or "eof" (Err((at, span))).
SkipUntil_probe(tok) ==
    IF tok = None THEN [commit |-> TRUE, res |-> "eof"]
    ELSE IF tok[1] \in until THEN [commit |-> consume_end, res |-> "found"]
    ELSE [commit |-> TRUE, res |-> "skipped"]

\* Variant of SkipUntil_progress: `>=` written for `>`.
SkipUntil_progress_or_equal(after, checkpoint) == Stream_save(after) >= checkpoint

\* The guard of the second Err arm: `stream.save() > pre_state`.
SkipUntil_progress(after, checkpoint) == Stream_save(after) > checkpoint

\* Variant of SkipUntil_err: the fatal error re-raised.
SkipUntil_err_reraised(n) == a_err

\* The error of the last arm: a fresh expected_input_found at the EOF position.
SkipUntil_err(n) ==
    Located(n.at, expected_input_found(n.span, until, None))

\* Variant of SkipUntil_push: the push left out.
SkipUntil_push_forgotten(errors, fatal) == errors

\* `a_errors.push(a_err);`
SkipUntil_push(errors, fatal) == Append(errors, fatal)

\* save, the optional unconditional skip, and a_errors.push(a_err)
SkipUntil_recover ==
    /\ pc = "recover"
    /\ strategy = "SkipUntil"
    /\ pre_state' = Stream_save(offset)
    /\ offset' = IF skip_start THEN Stream_next(offset).offset ELSE offset
    /\ a_errors' = SkipUntil_push(recovered_errors, a_err)
    /\ pc' = "su_loop"
    /\ UNCHANGED <<config, nested, recovered_errors, a_err, b_ret, retries, discards, result>>

\* One iteration of the loop.
SkipUntil_attempt ==
    /\ pc = "su_loop"
    /\ LET n == Stream_next(offset)
           p == SkipUntil_probe(n.tok)
           after == Stream_attempt(offset, p.commit, n.offset)
       IN /\ offset' = after
          /\ CASE p.res = "found" ->
                    /\ pc' = "done"
                    /\ result' = [errors |-> a_errors,
                                  res |-> Ok(fallback(Stream_span_since(pre_state, after)))]
               [] p.res = "skipped" ->
                    /\ pc' = "su_loop"
                    /\ UNCHANGED result
               [] p.res = "eof" /\ SkipUntil_progress(after, pre_state) ->
                    /\ pc' = "done"
                    /\ result' = [errors |-> a_errors,
                                  res |-> Ok(fallback(Stream_span_since(pre_state, after)))]
               [] OTHER ->
                    /\ pc' = "done"
                    /\ result' = [errors |-> a_errors, res |-> Err(SkipUntil_err(n))]
    /\ UNCHANGED <<config, nested, recovered_errors, a_err, a_errors, pre_state,
                   b_ret, retries, discards>>

\* ---------------------------------------------------------------- nested_delimiters
\* self.0 and self.1: the primary pair (nested_delimiters asserts start != end).
delim_start == "("
delim_end == ")"

\* Vec::pop and slice::last
Pop(stack) == IF stack = <<>> THEN stack ELSE SubSeq(stack, 1, Len(stack) - 1)
Last(stack) == IF stack = <<>> THEN None ELSE Some(stack[Len(stack)])

\* error.get_or_insert_with(|| Located::at(at, unclosed_delimiter(
\*     starts.pop().unwrap(), ...))) of the secondary-mismatch branch; the
\* closure runs only while error is None, and unwrap panics on an empty stack.
NestedDelimiters_mismatch(st, n, t) ==
    IF st.error # None THEN st
    ELSE IF st.starts = <<>> THEN [st EXCEPT !.panicked = TRUE]
    ELSE [st EXCEPT
            !.error = Some(Located(n.at,
                        unclosed_delimiter(Last(st.starts)[1], delim_start,
                                           n.span, delim_end, Some(t)))),
            !.starts = Pop(st.starts)]

\* Variant of NestedDelimiters_mismatched: the test of the primary balance left out.
NestedDelimiters_mismatched_any_balance(balance_other, bal) == balance_other < 0

\* Whether a secondary end records the mismatch.
NestedDelimiters_mismatched(balance_other, bal) == balance_other < 0 /\ bal = 1

\* Variant of NestedDelimiters_other: others.0 and others.1 exchanged.
NestedDelimiters_other_swapped(st, i, n, t) ==
    IF t = others[i][2]
    THEN [st EXCEPT !.balance_others[i] = @ + 1]
    ELSE IF t = others[i][1]
    THEN LET dec == [st EXCEPT !.balance_others[i] = @ - 1]
         IN IF NestedDelimiters_mismatched(dec.balance_others[i], balance)
            THEN NestedDelimiters_mismatch(dec, n, t)
            ELSE dec
    ELSE st

\* The body of `for (balance_other, others) in ...zip(...)` for pair i.
NestedDelimiters_other(st, i, n, t) ==
    IF t = others[i][1]
    THEN [st EXCEPT !.balance_others[i] = @ + 1]
    ELSE IF t = others[i][2]
    THEN LET dec == [st EXCEPT !.balance_others[i] = @ - 1]
         IN IF NestedDelimiters_mismatched(dec.balance_others[i], balance)
            THEN NestedDelimiters_mismatch(dec, n, t)
            ELSE dec
    ELSE st

\* The `for` loop over the secondary pairs, from pair i on.
RECURSIVE NestedDelimiters_others(_, _, _, _)
NestedDelimiters_others(i, st, n, t) ==
    IF i > Len(others) THEN st
    ELSE NestedDelimiters_others(i + 1, NestedDelimiters_other(st, i, n, t), n, t)

\* Variant of NestedDelimiters_eof: the diagnostic assigned, not inserted if absent.
NestedDelimiters_eof_overwrites(st, n) ==
    IF ~(balance > 0 /\ balance = 1) THEN st
    ELSE [st EXCEPT
            !.error = Some(Located(n.at,
                        IF st.starts # <<>>
                        THEN unclosed_delimiter(Last(st.starts)[1], delim_start,
                                                n.span, delim_end, None)
                        ELSE expected_input_found(n.span, {delim_end}, None))),
            !.starts = Pop(st.starts)]

\* The EOF arm's error.get_or_insert_with(|| match starts.pop() { ... }).
NestedDelimiters_eof(st, n) ==
    IF ~(balance > 0 /\ balance = 1) \/ st.error # None THEN st
    ELSE [st EXCEPT
            !.error = Some(Located(n.at,
                        IF st.starts # <<>>
                        THEN unclosed_delimiter(Last(st.starts)[1], delim_start,
                                                n.span, delim_end, None)
                        ELSE expected_input_found(n.span, {delim_end}, None))),
            !.starts = Pop(st.starts)]

\* Variant of NestedDelimiters_push_error: the recorded diagnostic dropped.
NestedDelimiters_push_error_dropped(errors, e) == errors

\* `if let Some(e) = error { a_errors.push(e); }`
NestedDelimiters_push_error(errors, e) ==
    IF e # None THEN Append(errors, e[1]) ELSE errors

\* `if a_errors.last().map_or(true, |e| a_err.at < e.at) { a_errors.push(a_err); }`
NestedDelimiters_push_fatal(errors, fatal) ==
    IF Last(errors) = None \/ fatal.at < Last(errors)[1].at
    THEN Append(errors, fatal)
    ELSE errors

\* The locals of NestedDelimiters::recover.
NestedDelimiters_recover ==
    /\ pc = "recover"
    /\ strategy = "NestedDelimiters"
    /\ a_errors' = recovered_errors
    /\ balance' = 0
    /\ balance_others' = [i \in 1..Len(others) |-> 0]
    /\ starts' = <<>>
    /\ error' = None
    /\ pre_state' = Stream_save(offset)
    /\ pc' = "nd_loop"
    /\ UNCHANGED <<config, offset, recovered_errors, a_err, recovered, b_ret,
                   retries, discards, result>>

\* Variant of NestedDelimiters_cmp: a negative balance taken for a positive one.
NestedDelimiters_cmp_unsigned(bal) == IF bal = 0 THEN "Equal" ELSE "Greater"

\* `balance.cmp(&0)` after a primary delimiter.
NestedDelimiters_cmp(bal) ==
    IF bal = 0 THEN "Equal" ELSE IF bal < 0 THEN "Less" ELSE "Greater"

\* One iteration of `let recovered = loop { ... }`.
NestedDelimiters_next ==
    /\ pc = "nd_loop"
    /\ LET n == Stream_next(offset)
           st == [balance_others |-> balance_others, error |-> error,
                  starts |-> starts, panicked |-> FALSE]
       IN /\ offset' = n.offset
          /\ CASE n.tok = Some(delim_start) ->
                    /\ balance' = balance + 1
                    /\ starts' = Append(starts, n.span)
                    /\ UNCHANGED <<balance_others, error>>
                    /\ CASE NestedDelimiters_cmp(balance') = "Equal" ->
                              pc' = "nd_end" /\ recovered' = TRUE
                         [] NestedDelimiters_cmp(balance') = "Less" ->
                              pc' = "nd_end" /\ recovered' = FALSE
                         [] OTHER -> pc' = "nd_loop" /\ UNCHANGED recovered
               [] n.tok = Some(delim_end) ->
                    /\ balance' = balance - 1
                    /\ starts' = Pop(starts)
                    /\ UNCHANGED <<balance_others, error>>
                    /\ CASE NestedDelimiters_cmp(balance') = "Equal" ->
                              pc' = "nd_end" /\ recovered' = TRUE
                         [] NestedDelimiters_cmp(balance') = "Less" ->
                              pc' = "nd_end" /\ recovered' = FALSE
                         [] OTHER -> pc' = "nd_loop" /\ UNCHANGED recovered
               [] n.tok = None ->
                    LET e == NestedDelimiters_eof(st, n)
                    IN /\ error' = e.error
                       /\ starts' = e.starts
                       /\ pc' = "nd_end"
                       /\ recovered' = FALSE
                       /\ UNCHANGED <<balance, balance_others>>
               [] OTHER ->
                    LET o == NestedDelimiters_others(1, st, n, n.tok[1])
                    IN /\ balance_others' = o.balance_others
                       /\ error' = o.error
                       /\ starts' = o.starts
                       /\ UNCHANGED balance
                       /\ IF o.panicked THEN pc' = "panic" /\ UNCHANGED recovered
                          ELSE IF balance = 0 THEN pc' = "nd_end" /\ recovered' = FALSE
                          ELSE pc' = "nd_loop" /\ UNCHANGED recovered
    /\ UNCHANGED <<config, recovered_errors, a_err, a_errors, pre_state, b_ret,
                   retries, discards, result>>

\* The code after the loop.
NestedDelimiters_return ==
    /\ pc = "nd_end"
    /\ LET pushed == NestedDelimiters_push_error(a_errors, error)
       IN IF recovered
          THEN /\ a_errors' = NestedDelimiters_push_fatal(pushed, a_err)
               /\ result' = [errors |-> a_errors',
                             res |-> Ok(fallback(Stream_span_since(pre_state, offset)))]
          ELSE /\ a_errors' = pushed
               /\ result' = [errors |-> a_errors', res |-> Err(a_err)]
    /\ pc' = "done"
    /\ UNCHANGED <<config, nested, offset, recovered_errors, a_err, pre_state,
                   b_ret, retries, discards>>

\* ---------------------------------------------------------------- RecoverVia<A, B>
\* Variant of RecoverVia_merge: push and append in the other order.
RecoverVia_merge_fatal_last(errors, fatal, b_errors) == Append(errors \o b_errors, fatal)

\* `a_errors.push(a_error); a_errors.append(&mut b_errors);`
RecoverVia_merge(errors, fatal, b_errors) == Append(errors, fatal) \o b_errors

\* stream.revert(pre_state)
Stream_revert(checkpoint) == checkpoint

\* save, then A runs on the stream itself.
RecoverVia_parse_inner ==
    /\ pc = "parse_inner"
    /\ combinator = "RecoverVia"
    /\ pre_state' = Stream_save(offset)
    /\ \E r \in Invoke("A", offset) :
        /\ offset' = r.end
        /\ a_errors' = r.errors
        /\ recovered_errors' = r.errors
        /\ IF r.ok
           THEN /\ result' = [errors |-> r.errors, res |-> Outcome("A", r)]
                /\ pc' = "done"
                /\ UNCHANGED a_err
           ELSE /\ a_err' = Located(r.at, ParseError("A"))
                /\ pc' = "via_revert"
                /\ UNCHANGED result
    /\ UNCHANGED <<config, nested, b_ret, retries, discards>>

\* The revert after A failed, then B runs from the checkpoint.
RecoverVia_invoke_b ==
    /\ pc = "via_revert"
    /\ \E r \in Invoke("B", Stream_revert(pre_state)) :
        /\ offset' = r.end
        /\ b_ret' = r
    /\ pc' = "via_b"
    /\ UNCHANGED <<config, nested, recovered_errors, a_err, a_errors, pre_state,
                   retries, discards, result>>

\* Variant of RecoverVia_failed: the second revert left out.
RecoverVia_failed_unreverted(off, checkpoint) == off

\* The cursor RecoverVia leaves when B failed too: stream.revert(pre_state).
RecoverVia_failed(off, checkpoint) == Stream_revert(checkpoint)

\* The two returns after B ran.
RecoverVia_return ==
    /\ pc = "via_b"
    /\ IF b_ret.ok
       THEN /\ a_errors' = RecoverVia_merge(a_errors, a_err, b_ret.errors)
            /\ result' = [errors |-> a_errors', res |-> Outcome("B", b_ret)]
            /\ UNCHANGED offset
       ELSE /\ offset' = RecoverVia_failed(offset, pre_state)
            /\ result' = [errors |-> a_errors, res |-> Err(a_err)]
            /\ UNCHANGED a_errors
    /\ pc' = "done"
    /\ UNCHANGED <<config, nested, recovered_errors, a_err, pre_state, b_ret,
                   retries, discards>>

\* ---------------------------------------------------------------- specification
Next ==
    \/ Recovery_parse_inner
    \/ SkipThenRetryUntil_recover
    \/ SkipThenRetryUntil_attempt
    \/ SkipThenRetryUntil_invoke
    \/ SkipUntil_recover
    \/ SkipUntil_attempt
    \/ NestedDelimiters_recover
    \/ NestedDelimiters_next
    \/ NestedDelimiters_return
    \/ RecoverVia_parse_inner
    \/ RecoverVia_invoke_b
    \/ RecoverVia_return

Spec == Init /\ [][Next]_vars

\* Every call made by parse_inner and recover returns, so a step that can
\* be taken is eventually taken.
FairSpec == Spec /\ WF_vars(Next)

\* ---------------------------------------------------------------- properties
NoFatal == Located(0, ParseError("none"))

\* recover of strategy s was invoked (A failed) and has returned.
RecoverReturned(s) ==
    /\ pc = "done"
    /\ combinator = "Recovery"
    /\ strategy = s
    /\ a_err # NoFatal

\* RecoverVia::parse_inner has returned after A failed.
ViaReturned ==
    /\ pc = "done"
    /\ combinator = "RecoverVia"
    /\ a_err # NoFatal

Strategies == {"SkipThenRetryUntil", "SkipUntil", "NestedDelimiters"}

IsPrefix(p, q) == Len(p) <= Len(q) /\ SubSeq(q, 1, Len(p)) = p

Occurrences(q, x) == Cardinality({i \in DOMAIN q : q[i] = x})

CountKind(q, k) == Cardinality({i \in DOMAIN q : q[i].error.kind = k})

Ordered(q) == \A i \in DOMAIN q : \A j \in DOMAIN q : i < j => q[i].at <= q[j].at

\* Index (1-based) of the primary end that closes the opener counted in
\* `bal`, scanning the input from index i; 0 when there is none.
RECURSIVE MatchingEnd(_, _)
MatchingEnd(i, bal) ==
    IF i > Len(input) THEN 0
    ELSE IF input[i] = delim_start THEN MatchingEnd(i + 1, bal + 1)
    ELSE IF input[i] = delim_end
         THEN IF bal = 1 THEN i ELSE MatchingEnd(i + 1, bal - 1)
    ELSE MatchingEnd(i + 1, bal)

\* Number of secondary openers among input[i..j] that no later secondary
\* end in that range closes.
RECURSIVE UnclosedOpeners(_, _, _)
UnclosedOpeners(i, j, open) ==
    IF i > j THEN open
    ELSE IF input[i] = "[" THEN UnclosedOpeners(i + 1, j, open + 1)
    ELSE IF input[i] = "]" /\ open > 0 THEN UnclosedOpeners(i + 1, j, open - 1)
    ELSE UnclosedOpeners(i + 1, j, open)

\* Index (1-based) of the first terminator at or after index i; 0 when none.
RECURSIVE FirstTerminator(_)
FirstTerminator(i) ==
    IF i > Len(input) THEN 0
    ELSE IF input[i] \in until THEN i
    ELSE FirstTerminator(i + 1)

\* C1: for each of the three strategies, whatever the outcome, the diagnostic
\* list passed to recover is a prefix of the diagnostic list it returns.
C1_PassedDiagnosticsArePrefix ==
    \A s \in Strategies :
        RecoverReturned(s) => IsPrefix(recovered_errors, result.errors)

\* C2: nested_delimiters with the secondary pair ('[', ']'), invoked at a
\* primary start whose scope still holds an unclosed '[' when the matching
\* primary end arrives: recovery succeeds at that primary end and returns
\* exactly one unclosed-delimiter diagnostic.
C2_UnclosedSecondaryDiagnosed ==
    ( /\ RecoverReturned("NestedDelimiters")
      /\ others = << <<"[", "]">> >>
      /\ entry < Len(input)
      /\ input[entry + 1] = delim_start
      /\ MatchingEnd(entry + 2, 1) # 0
      /\ UnclosedOpeners(entry + 2, MatchingEnd(entry + 2, 1) - 1, 0) > 0 )
    => /\ result.res.ok
       /\ offset = MatchingEnd(entry + 2, 1)
       /\ CountKind(result.errors, "unclosed_delimiter") = 1

\* Whether some secondary end among input[i..j] drives the secondary counter
\* (cnt so far) below zero while the primary balance (bal so far) is 1.
RECURSIVE StrayEnd(_, _, _, _)
StrayEnd(i, j, bal, cnt) ==
    IF i > j THEN FALSE
    ELSE IF input[i] = delim_start THEN StrayEnd(i + 1, j, bal + 1, cnt)
    ELSE IF input[i] = delim_end THEN StrayEnd(i + 1, j, bal - 1, cnt)
    ELSE IF input[i] = "[" THEN StrayEnd(i + 1, j, bal, cnt + 1)
    ELSE IF input[i] = "]"
         THEN (cnt - 1 < 0 /\ bal = 1) \/ StrayEnd(i + 1, j, bal, cnt - 1)
    ELSE StrayEnd(i + 1, j, bal, cnt)

\* C2 amended: in the same case recovery succeeds at that primary end, and
\* the unclosed opener adds no diagnostic: the returned list holds an
\* unclosed-delimiter diagnostic (exactly one) only if a secondary end drove
\* its counter below zero while the primary balance was 1, and none
\* otherwise, as on "( [ )".
C2_UnclosedSecondaryUndiagnosed ==
    ( /\ RecoverReturned("NestedDelimiters")
      /\ others = << <<"[", "]">> >>
      /\ entry < Len(input)
      /\ input[entry + 1] = delim_start
      /\ MatchingEnd(entry + 2, 1) # 0
      /\ UnclosedOpeners(entry + 2, MatchingEnd(entry + 2, 1) - 1, 0) > 0 )
    => /\ result.res.ok
       /\ offset = MatchingEnd(entry + 2, 1)
       /\ CountKind(result.errors, "unclosed_delimiter") =
            IF StrayEnd(entry + 2, MatchingEnd(entry + 2, 1) - 1, 1, 0)
            THEN 1 ELSE 0

C2_UnclosedSecondaryAtEnd ==
    /\ RecoverReturned("NestedDelimiters")
    /\ others = << <<"[", "]">> >>
    /\ entry < Len(input)
    /\ input[entry + 1] = delim_start
    /\ MatchingEnd(entry + 2, 1) # 0
    /\ UnclosedOpeners(entry + 2, MatchingEnd(entry + 2, 1) - 1, 0) > 0
    /\ result.res.ok
    /\ CountKind(result.errors, "unclosed_delimiter") = 0

\* C3 as stated: whenever a strategy returns Err, the error is the original
\* fatal error.
C3_ErrIsOriginalFatal ==
    \A s \in Strategies :
        RecoverReturned(s) /\ ~result.res.ok => result.res.err = a_err

\* C3 amended: skip_then_retry_until and nested_delimiters return the
\* original fatal error; skip_until returns a fresh expected_input_found
\* error located at the end of input (expected: the terminators, found:
\* nothing), the original fatal error being the last returned diagnostic.
C3_ErrIsOriginalExceptSkipUntil ==
    /\ \A s \in {"SkipThenRetryUntil", "NestedDelimiters"} :
        RecoverReturned(s) /\ ~result.res.ok => result.res.err = a_err
    /\ RecoverReturned("SkipUntil") /\ ~result.res.ok =>
        /\ result.res.err =
             Located(Len(input),
                     expected_input_found(<<Len(input), Len(input)>>, until, None))
        /\ result.res.err # a_err
        /\ result.errors # <<>>
        /\ result.errors[Len(result.errors)] = a_err

C3_SkipUntilFailed ==
    /\ RecoverReturned("SkipUntil")
    /\ ~result.res.ok
    /\ recovered_errors # <<>>

\* C4 as stated: whenever a strategy returns Ok, the cursor is strictly past
\* the position at which the strategy was invoked, unless no input was
\* available.
C4_OkMakesProgress ==
    \A s \in Strategies :
        RecoverReturned(s) /\ result.res.ok =>
            offset > entry \/ entry = Len(input)

\* C4 amended: whenever a strategy returns Ok, the cursor is strictly past
\* the invocation position, except for skip_until with skip_first and
\* consume_terminator both unset invoked at a terminator: it returns Ok with
\* the cursor unchanged and a zero-width span.
C4_OkMakesProgressUnlessAtTerminator ==
    \A s \in Strategies :
        RecoverReturned(s) /\ result.res.ok =>
            \/ offset > entry
            \/ /\ s = "SkipUntil"
               /\ ~skip_start
               /\ ~consume_end
               /\ entry < Len(input)
               /\ input[entry + 1] \in until
               /\ offset = entry
               /\ result.res.out = fallback(<<entry, entry>>)

C4_ZeroWidthOk ==
    /\ RecoverReturned("SkipUntil")
    /\ result.res.ok
    /\ offset = entry

\* C5 as stated: when nested_delimiters fails, the returned diagnostic list
\* is exactly the list passed in and the returned error is the original
\* fatal error.
C5_FailureDiscardsRecorded ==
    RecoverReturned("NestedDelimiters") /\ ~result.res.ok =>
        /\ result.errors = recovered_errors
        /\ result.res.err = a_err

\* C5 amended: when nested_delimiters fails, the returned diagnostic list is
\* the list passed in followed by the diagnostic recorded during the attempt
\* if there is one (at most one), and the returned error is the original
\* fatal error.
C5_FailureKeepsRecorded ==
    RecoverReturned("NestedDelimiters") /\ ~result.res.ok =>
        /\ result.errors = recovered_errors \o error
        /\ Len(error) <= 1
        /\ result.res.err = a_err

C5_FailedWithRecorded ==
    /\ RecoverReturned("NestedDelimiters")
    /\ ~result.res.ok
    /\ error # None
    /\ recovered_errors # <<>>

\* C6: whenever a strategy returns Ok, the original fatal error occurs
\* exactly once in the returned diagnostic list.
C6_FatalDemotedOnce ==
    \A s \in Strategies :
        RecoverReturned(s) /\ result.res.ok =>
            Occurrences(result.errors, a_err) = 1

\* C7: after a successful nested_delimiters recovery, if the list passed in
\* was ordered by non-decreasing position, so is the returned list.
C7_OrderPreserved ==
    ( /\ RecoverReturned("NestedDelimiters")
      /\ result.res.ok
      /\ Ordered(recovered_errors) )
    => Ordered(result.errors)

\* C8: skip_then_retry_until with skip_first unset, on an input holding a
\* terminator, every re-attempt failing: recover returns Err with the
\* original fatal error, the cursor immediately before the first terminator
\* when consume_terminator is unset and immediately after it when set.
C8_StopsAtFirstTerminator ==
    ( /\ RecoverReturned("SkipThenRetryUntil")
      /\ ~skip_start
      /\ FirstTerminator(entry + 1) # 0
      /\ ~result.res.ok )
    => /\ result.res.err = a_err
       /\ offset = IF consume_end THEN FirstTerminator(entry + 1)
                   ELSE FirstTerminator(entry + 1) - 1

\* C9: RecoverVia, A failed and B succeeded: the returned diagnostics are
\* A's diagnostics, then A's fatal error, then B's diagnostics; the output
\* is B's output; the cursor is where B finished.
C9_ViaMergeOrder ==
    ViaReturned /\ b_ret.ok =>
        /\ result.errors = recovered_errors \o <<a_err>> \o b_ret.errors
        /\ result.res = Outcome("B", b_ret)
        /\ result.res.ok
        /\ offset = b_ret.end

C9_ViaRecovered ==
    /\ ViaReturned
    /\ b_ret.ok
    /\ recovered_errors # <<>>
    /\ b_ret.errors # <<>>
    /\ b_ret.end > entry

\* C10: RecoverVia, A and B both failed: the returned error is A's fatal
\* error, the returned diagnostics are A's alone (none of B's diagnostics,
\* nor B's error), and the cursor is back where RecoverVia was invoked.
C10_ViaBothFail ==
    ViaReturned /\ ~b_ret.ok =>
        /\ result.res = Err(a_err)
        /\ a_err.error = ParseError("A")
        /\ result.errors = recovered_errors
        /\ \A i \in DOMAIN result.errors : result.errors[i].error.by = "A"
        /\ offset = entry

C10_ViaFailedTwice ==
    /\ ViaReturned
    /\ ~b_ret.ok
    /\ b_ret.errors # <<>>
    /\ b_ret.end > entry
    /\ entry > 0

\* C11: nested_delimiters succeeds if and only if the input at the invocation
\* position is the primary start and a later primary end brings the balance
\* back to zero before the end of input; on success the cursor is
\* immediately after that primary end.
C11_SucceedsIffBalanced ==
    RecoverReturned("NestedDelimiters") =>
        /\ result.res.ok <=>
             /\ entry < Len(input)
             /\ input[entry + 1] = delim_start
             /\ MatchingEnd(entry + 2, 1) # 0
        /\ result.res.ok => offset = MatchingEnd(entry + 2, 1)
        /\ (entry < Len(input) /\ input[entry + 1] # delim_start) => ~result.res.ok
        /\ entry = Len(input) => ~result.res.ok

C11_RecoveredNested ==
    /\ RecoverReturned("NestedDelimiters")
    /\ result.res.ok
    /\ offset - entry >= 3

\* nested_delimiters is running or has returned.
NestedActive ==
    /\ combinator = "Recovery"
    /\ strategy = "NestedDelimiters"
    /\ pc \in {"nd_loop", "nd_end", "done", "panic"}

\* C12 as stated: recovery never panics, and whenever no diagnostic has been
\* recorded in the attempt the starts stack holds as many positions as the
\* primary balance.
C12_StackMatchesBalance ==
    /\ pc # "panic"
    /\ NestedActive /\ error = None => Len(starts) = balance

\* C12 amended: recovery never panics, and whenever no diagnostic has been
\* recorded and the primary balance is not negative the starts stack holds
\* as many positions as the primary balance; a negative balance (-1, after a
\* primary end as first input) comes with an empty stack and the loop over.
C12_StackMatchesNonNegativeBalance ==
    /\ pc # "panic"
    /\ NestedActive /\ error = None /\ balance >= 0 => Len(starts) = balance
    /\ NestedActive /\ balance < 0 =>
        /\ balance = -1
        /\ starts = <<>>
        /\ error = None
        /\ pc \in {"nd_end", "done"}

C12_MismatchPopped ==
    /\ NestedActive
    /\ error # None
    /\ error[1].error.kind = "unclosed_delimiter"
    /\ error[1].error.found # None
    /\ starts = <<>>
    /\ balance = 1

\* C14: skip_until fails if and only if no input remains where it is
\* invoked; then the cursor is unchanged and the error is an
\* expected_input_found at the end of input, expecting the terminators and
\* finding nothing. With at least one input left it succeeds.
C14_SkipUntilFailsOnlyAtEof ==
    RecoverReturned("SkipUntil") =>
        /\ ~result.res.ok <=> entry = Len(input)
        /\ ~result.res.ok =>
            /\ offset = entry
            /\ result.res.err.at = Len(input)
            /\ result.res.err.error.kind = "expected_input_found"
            /\ result.res.err.error.expected = until
            /\ result.res.err.error.found = None
        /\ entry < Len(input) => result.res.ok

C14_SkipUntilAtEof ==
    /\ RecoverReturned("SkipUntil")
    /\ ~result.res.ok
    /\ skip_start
    /\ entry > 0

\* C15: whatever the outcome of skip_until, the returned diagnostic list is
\* the list passed in followed by the original fatal error, and the wrapped
\* parser is never invoked again.
C15_SkipUntilAppendsFatal ==
    RecoverReturned("SkipUntil") =>
        /\ result.errors = recovered_errors \o <<a_err>>
        /\ retries = 0

C15_SkipUntilReturned ==
    /\ RecoverReturned("SkipUntil")
    /\ recovered_errors # <<>>
    /\ result.res.ok
    /\ offset > entry

\* Cursor position from which skip_until starts probing.
SkipUntil_from == IF skip_start /\ entry < Len(input) THEN entry + 1 ELSE entry

\* C16: when skip_until succeeds on a terminator, it is the first terminator
\* at or after the starting position (after the skip_first input), the
\* cursor is immediately before it when consume_terminator is unset and
\* immediately after it when set, and the fallback spans the input from the
\* starting checkpoint to the cursor.
C16_SkipUntilStopsAtFirstTerminator ==
    ( /\ RecoverReturned("SkipUntil")
      /\ result.res.ok
      /\ FirstTerminator(SkipUntil_from + 1) # 0 )
    => /\ offset = IF consume_end THEN FirstTerminator(SkipUntil_from + 1)
                   ELSE FirstTerminator(SkipUntil_from + 1) - 1
       /\ \A i \in (SkipUntil_from + 1)..(FirstTerminator(SkipUntil_from + 1) - 1) :
            input[i] \notin until
       /\ result.res.out = fallback(<<entry, offset>>)

C16_SkippedToTerminator ==
    /\ RecoverReturned("SkipUntil")
    /\ result.res.ok
    /\ skip_start
    /\ entry < Len(input)
    /\ input[entry + 1] \in until
    /\ FirstTerminator(SkipUntil_from + 1) > SkipUntil_from + 1

\* skip_then_retry_until is running or has returned.
RetryActive ==
    /\ combinator = "Recovery"
    /\ strategy = "SkipThenRetryUntil"
    /\ pc \in {"stru_loop", "stru_invoke", "done"}
    /\ a_err # NoFatal

\* C17: in skip_then_retry_until every re-attempt of the wrapped parser
\* directly follows the committed discard of one non-terminator input: the
\* parser is about to be re-attempted only past the invocation position and
\* right after a non-terminator, with exactly one more discard than
\* re-attempts so far; everywhere else re-attempts and discards are equal.
C17_RetryFollowsDiscard ==
    RetryActive =>
        /\ pc = "stru_invoke" =>
            /\ offset > entry
            /\ input[offset] \notin until
            /\ discards = retries + 1
        /\ pc # "stru_invoke" => discards = retries

C17_RetriedTwice ==
    /\ RetryActive
    /\ pc = "done"
    /\ retries >= 2
    /\ ~result.res.ok

\* The positions at which a strategy's loop probes the next input.
Probing == pc \in {"stru_loop", "su_loop", "nd_loop"}

\* C18: once recover of any of the three strategies is invoked it eventually
\* returns; a probe whose iteration does not return consumes one input, and
\* a probe at the end of the input ends the loop.
C18_RecoverReturns ==
    /\ [](pc = "recover" => <>(pc = "done"))
    /\ [][Probing /\ pc' \in {"stru_loop", "stru_invoke", "su_loop", "nd_loop"}
            => offset' = offset + 1]_vars
    /\ [][Probing /\ offset = Len(input)
            => pc' \in {"done", "nd_end"} /\ offset' = offset]_vars

C18_ReturnedAtEof ==
    /\ pc = "done"
    /\ combinator = "Recovery"
    /\ a_err # NoFatal
    /\ offset = Len(input)
    /\ offset - entry >= 2
    /\ ~result.res.ok

\* The list q without its unclosed-delimiter diagnostics.
WithoutUnclosed(q) == SelectSeq(q, LAMBDA e : e.error.kind # "unclosed_delimiter")

\* Whether nested_delimiters recovers from `entry`, read off the input and
\* the primary pair alone.
PrimaryBalanced ==
    /\ entry < Len(input)
    /\ input[entry + 1] = delim_start
    /\ MatchingEnd(entry + 2, 1) # 0

\* Where the loop of nested_delimiters stops, read off the input and the
\* primary pair alone: after the closing primary end, after a first input
\* that is not the primary start, or at the end of the input.
PrimaryStop ==
    IF PrimaryBalanced THEN MatchingEnd(entry + 2, 1)
    ELSE IF entry < Len(input) /\ input[entry + 1] # delim_start THEN entry + 1
    ELSE Len(input)

\* The list returned with an empty array of secondary pairs, without its
\* unclosed-delimiter diagnostics: no mismatch is recorded, so on success
\* the fatal error is pushed onto the list passed in.
PrimaryErrors ==
    IF PrimaryBalanced
    THEN WithoutUnclosed(NestedDelimiters_push_fatal(recovered_errors, a_err))
    ELSE WithoutUnclosed(recovered_errors)

\* Outcome, cursor, fallback span and returned error of nested_delimiters
\* are those fixed by the input and the primary pair.
SecondaryLeavesOutcome ==
    RecoverReturned("NestedDelimiters") =>
        /\ result.res.ok <=> PrimaryBalanced
        /\ offset = PrimaryStop
        /\ result.res.ok =>
              result.res.out = fallback(Stream_span_since(entry, PrimaryStop))
        /\ ~result.res.ok => result.res.err = a_err

\* C19: in nested_delimiters the secondary pairs influence diagnostics only:
\* outcome, final cursor, fallback span and returned error are those of the
\* run with no secondary pairs, and apart from unclosed-delimiter diagnostics
\* the returned list is that run's list too.
C19_SecondaryOnlyDiagnoses ==
    /\ SecondaryLeavesOutcome
    /\ RecoverReturned("NestedDelimiters") =>
          WithoutUnclosed(result.errors) = PrimaryErrors

\* Number of diagnostics in q that nested_delimiters derives itself.
Derived(q) ==
    Cardinality({i \in DOMAIN q :
                    q[i].error.kind \in {"unclosed_delimiter", "expected_input_found"}})

\* C20: one nested_delimiters attempt records at most one derived diagnostic
\* and the first one wins: a recorded diagnostic is never replaced, one is
\* recorded only by the loop while the primary balance is exactly 1 (at a
\* secondary end or at the end of the input), and the returned list holds
\* at most one.
C20_FirstDiagnosticWins ==
    /\ [](NestedActive =>
            /\ Len(error) <= 1
            /\ pc = "done" => Derived(result.errors) <= 1
            /\ pc = "done" => Derived(result.errors) = Len(error))
    /\ [][error # None => error' = error]_vars
    /\ [][error = None /\ error' # None =>
            /\ pc = "nd_loop"
            /\ balance = 1
            /\ balance' = 1
            /\ \/ Stream_next(offset).tok = None
               \/ /\ Stream_next(offset).tok = Some("]")
                  /\ balance_others'[1] < 0]_vars

C20_LaterMismatchAndEof ==
    /\ NestedActive
    /\ pc = "done"
    /\ error # None
    /\ error[1].error.found = Some("]")
    /\ balance_others[1] <= -2
    /\ balance = 1
    /\ offset = Len(input)

====
